---------------------------- MODULE Spec2Model ----------------------------
(***************************************************************************)
(* A model of ecs-run-task (src/cmd/root.go, lines 1-180): the command     *)
(* that optionally registers a task definition, runs one ECS task, waits   *)
(* until it stopped, prints its CloudWatch log events and exits with the   *)
(* exit code of the task's first container.                                *)
(*                                                                         *)
(* The program is single-threaded and every remote call blocks, so one     *)
(* action is one remote call together with the code that handles its       *)
(* answer, up to the next remote call.  The answer of a remote service is  *)
(* an input, drawn from a small set.                                       *)
(*                                                                         *)
(* Strings the program takes apart or puts together (the comma-separated   *)
(* flags, the task ARN, the log-stream name) are sequences of one-letter   *)
(* strings; strings it only passes on (cluster, task definition, launch    *)
(* type) are TLA+ strings.                                                 *)
(***************************************************************************)
EXTENDS Integers, Sequences, FiniteSets, TLC

\* ------------------------------------------------------------- bounds
MaxFlagLen == 2         \* longest --subnets value, in letters
MaxArnLen == 2          \* longest task ARN, in letters
MaxExtraEvents == 1     \* how far a log stream may exceed the request limit

\* -------------------------------------------------- program constants
LogLimit == 100         \* Limit: aws.Int64(100)
RunTaskCount == 1       \* Count: aws.Int64(1)
FatalExitStatus == 1    \* os.Exit(1) of every handled error
PanicExitStatus == 2    \* exit status of a Go run-time panic

\* ------------------------------------------------------ string helpers
RECURSIVE StringsUpTo(_, _)
\* All strings over the alphabet of length at most n.
StringsUpTo(alphabet, n) ==
    IF n = 0 THEN {<<>>}
    ELSE LET shorter == StringsUpTo(alphabet, n - 1)
         IN  shorter \cup {Append(s, c) : s \in shorter, c \in alphabet}

\* strings.Split(s, sep) for a one-letter separator: the pieces between the
\* separators, empty ones included, so Split("", ",") is <<"">>.
RECURSIVE Split(_, _)
Split(s, sep) ==
    IF \A i \in 1..Len(s) : s[i] # sep
    THEN <<s>>
    ELSE LET i == CHOOSE k \in 1..Len(s) :
                      s[k] = sep /\ \A j \in 1..(k - 1) : s[j] # sep
         IN  <<SubSeq(s, 1, i - 1)>> \o Split(SubSeq(s, i + 1, Len(s)), sep)

\* taskArnSplit[len(taskArnSplit)-1]
LastSegment(arn) ==
    LET taskArnSplit == Split(arn, "/") IN taskArnSplit[Len(taskArnSplit)]

\* logPrefix + "/" + containerName + "/" + taskArnID
BuildLogStreamNameMut(logPrefix, containerName, taskArnID) ==
    logPrefix \o <<"/">> \o taskArnID \o <<"/">> \o containerName
BuildLogStreamName(logPrefix, containerName, taskArnID) ==
    logPrefix \o <<"/">> \o containerName \o <<"/">> \o taskArnID

\* ------------------------------------------------------------- inputs
Clusters == {"", "cluster"}
TaskDefinitionArgs == {"", "taskdef"}
LaunchTypes == {"FARGATE", "EC2"}
SubnetFlags == StringsUpTo({"s", ","}, MaxFlagLen)
SecurityGroupFlags == {<<>>, <<"g">>, <<"g", ",", "h">>}

\* What opening, reading and unmarshalling the file leave in the
\* RegisterTaskDefinitionInput: os.Open fails or the JSON has a syntax
\* error -> the zero value; a JSON value of the wrong type for a field ->
\* that field skipped and the rest filled in; no error -> the document.
FileStates == {"ok", "unreadable", "badsyntax", "typemismatch"}
Unmarshalled(fs) ==
    CASE fs = "ok" -> "document"
      [] fs = "typemismatch" -> "partial"
      [] OTHER -> "zero"

RegisteredArns == {"arn:registered"}
\* the ARN of the launched task: any non-empty string
TaskArns == StringsUpTo({"t", "/"}, MaxArnLen) \ {<<>>}
ContainerLists == {<<>>, <<<<"c">>>>, <<<<"d">>, <<"c">>>>}

KeyPrefix == "awslogs-stream-prefix"
KeyGroup == "awslogs-group"
LogOptions ==
    {[k \in {KeyPrefix, KeyGroup} |-> IF k = KeyPrefix THEN p ELSE <<"G">>] :
        p \in {<<"p">>, <<"p", "/", "q">>}}
    \cup {[k \in {KeyPrefix} |-> <<"p">>]}
    \cup {[k \in {KeyGroup} |-> <<"G">>]}
\* DescribeTaskDefinitionOutput.TaskDefinition.ContainerDefinitions, each
\* with its LogConfiguration.Options
ContainerDefinitionLists ==
    {<<>>} \cup {<<o>> : o \in LogOptions}
    \cup {<<[k \in {KeyPrefix, KeyGroup} |-> IF k = KeyPrefix THEN <<"p">> ELSE <<"G">>],
            [k \in {KeyPrefix, KeyGroup} |-> IF k = KeyPrefix THEN <<"x">> ELSE <<"H">>]>>}

StreamLengths == {0, 2, LogLimit, LogLimit + MaxExtraEvents}
\* The events of a stream of n events, earliest first: event i carries
\* message i.
StreamEvents(n) == [i \in 1..n |-> i]

ExitCodes == {0, 1, 137, 255}
NoExitCode == [has |-> FALSE, code |-> 0]
ExitCodeOf(c) == [has |-> TRUE, code |-> c]
\* DescribeTasksOutput.Tasks[0].Containers, each with its ExitCode (nil
\* when the container never ran)
ExitContainerLists ==
    {<<>>, <<NoExitCode>>} \cup {<<ExitCodeOf(c)>> : c \in ExitCodes}
    \cup {<<ExitCodeOf(137), ExitCodeOf(0)>>}

VARIABLES
    ecsCluster, taskDefinition, taskDefinitionFile,     \* the flag globals
    securityGroups, subnets, launchType,
    argTaskDefinition,  \* history: the --task-definition argument as given
    pc,                 \* where the process is
    exitStatus,         \* the process's exit status, once pc = "exited"
    out,                \* what the process printed, in order
    calls,              \* history: the remote calls made, in order
    taskArn, taskArnID, containerName,                  \* locals of RunTask
    taskDefinitionOutput, logPrefix,
    logStreamName, logGroupName                         \* results of RunTask

flags == <<ecsCluster, taskDefinition, taskDefinitionFile, securityGroups,
           subnets, launchType, argTaskDefinition>>
launched == <<taskArn, taskArnID, containerName>>
described == <<taskDefinitionOutput, logPrefix>>
names == <<logStreamName, logGroupName>>
vars == <<flags, pc, exitStatus, out, calls, launched, described, names>>

Init ==
    /\ ecsCluster \in Clusters
    /\ taskDefinition \in TaskDefinitionArgs
    /\ argTaskDefinition = taskDefinition
    /\ taskDefinitionFile \in BOOLEAN
    /\ securityGroups \in SecurityGroupFlags
    /\ subnets \in SubnetFlags
    /\ launchType \in LaunchTypes
    /\ pc = "start"
    /\ exitStatus = 0
    /\ out = <<>>
    /\ calls = <<>>
    /\ taskArn = <<>> /\ taskArnID = <<>> /\ containerName = <<>>
    /\ taskDefinitionOutput = <<>> /\ logPrefix = <<>>
    /\ logStreamName = <<>> /\ logGroupName = <<>>

\* ------------------------------------------------- process termination
\* os.Exit(status) after printing the lines
Exit(status, lines) ==
    /\ pc' = "exited"
    /\ exitStatus' = status
    /\ out' = out \o lines

\* fmt.Println(header); fmt.Println(err.Error()); os.Exit(1)
Fatal(lines, op) ==
    Exit(FatalExitStatus, lines \o <<<<"msg", "error header">>, <<"err", op>>>>)

\* a nil dereference or an index out of range: the run time prints the
\* panic and exits
Panic(lines) == Exit(PanicExitStatus, lines \o <<<<"panic">>>>)

Call(op, req, ok, resp) == [op |-> op, req |-> req, ok |-> ok, resp |-> resp]
\* ------------------------------------------------------------ rootCmd.Run
\* if ecsCluster == "" || taskDefinition == "" { cmd.Usage(); os.Exit(1) }
\* (session.Must makes no remote call)
Run ==
    /\ pc = "start"
    /\ IF ecsCluster = "" \/ taskDefinition = ""
       THEN Exit(FatalExitStatus, <<<<"msg", "usage">>>>)
       ELSE /\ pc' = IF taskDefinitionFile THEN "parse" ELSE "runtask"
            /\ UNCHANGED <<exitStatus, out>>
    /\ UNCHANGED <<flags, calls, launched, described, names>>

\* ---------------------------------------------------- ParseTaskDefinition
\* taskDefinition = ParseTaskDefinition(sess, taskDefinition): the value
\* the function returns for the file name it got and the ARN registered
RegisteredTaskDefinitionMut(fileName, arn) == fileName
RegisteredTaskDefinition(fileName, arn) == arn

RegisterOnErr(lines) ==
    /\ Fatal(lines, "RegisterTaskDefinition")
    /\ UNCHANGED flags

RegisterOnOk(lines, arn) ==
    /\ taskDefinition' = RegisteredTaskDefinition(taskDefinition, arn)
    /\ out' = out \o lines \o <<<<"msg", "Succesfully uploaded">>>>
    /\ pc' = "runtask"
    /\ UNCHANGED <<ecsCluster, taskDefinitionFile, securityGroups, subnets,
                   launchType, argTaskDefinition, exitStatus>>

\* The errors of os.Open, ioutil.ReadAll and json.Unmarshal do not end the
\* function: the first is printed, the other two are discarded, and
\* RegisterTaskDefinition is called with whatever was unmarshalled.
ParseTaskDefinition ==
    /\ pc = "parse"
    /\ \E fs \in FileStates, ok \in BOOLEAN, arn \in RegisteredArns :
          LET lines == (IF fs = "unreadable" THEN <<<<"err", "os.Open">>>> ELSE <<>>)
                       \o <<<<"msg", "Successfully Opened task definition">>>>
              req == [file |-> fs, content |-> Unmarshalled(fs)]
          IN  /\ calls' = Append(calls, Call("RegisterTaskDefinition", req, ok,
                                             IF ok THEN arn ELSE ""))
              /\ IF ok THEN RegisterOnOk(lines, arn) ELSE RegisterOnErr(lines)
    /\ UNCHANGED <<launched, described, names>>

\* ---------------------------------------------------------------- RunTask
NoNetworkConfiguration ==
    [present |-> FALSE, subnets |-> <<>>, securityGroups |-> <<>>]

\* runTaskInput, with NetworkConfiguration set when either flag is given
RunTaskInputMut(cluster, lt, td) ==
    [cluster |-> cluster, count |-> RunTaskCount + 1, launchType |-> lt,
     taskDefinition |-> td, networkConfiguration |-> NoNetworkConfiguration]
RunTaskInput(cluster, lt, td) ==
    [cluster |-> cluster, count |-> RunTaskCount, launchType |-> lt,
     taskDefinition |-> td,
     networkConfiguration |->
        IF subnets # <<>> \/ securityGroups # <<>>
        THEN [present |-> TRUE,
              subnets |-> Split(subnets, ","),
              securityGroups |-> Split(securityGroups, ",")]
        ELSE NoNetworkConfiguration]

RunTaskResponses ==
    {<<>>} \cup {<<[taskArn |-> a, containers |-> cs]>> :
                    a \in TaskArns, cs \in ContainerLists}

\* if err != nil { ...; os.Exit(1) }
RunTaskOnErrMut(lines) ==
    /\ pc' = "describe"
    /\ out' = out \o lines
    /\ UNCHANGED <<exitStatus, launched>>
RunTaskOnErr(lines) ==
    /\ Fatal(lines, "RunTask")
    /\ UNCHANGED launched

\* output.Tasks[0].TaskArn, its last segment, output.Tasks[0].Containers[0].Name
RunTaskOnOk(lines, tasks) ==
    IF tasks = <<>> \/ tasks[1].containers = <<>>
    THEN /\ Panic(lines)
         /\ UNCHANGED launched
    ELSE /\ taskArn' = tasks[1].taskArn
         /\ taskArnID' = LastSegment(tasks[1].taskArn)
         /\ containerName' = tasks[1].containers[1]
         /\ pc' = "describe"
         /\ out' = out \o lines
         /\ UNCHANGED exitStatus

\* RunTask up to the answer of svc.RunTask
RunTaskLaunch ==
    /\ pc = "runtask"
    /\ \E ok \in BOOLEAN, tasks \in RunTaskResponses :
          LET input == RunTaskInput(ecsCluster, launchType, taskDefinition)
              lines == <<<<"msg", "Launching task">>>>
                       \o (IF input.networkConfiguration.present
                           THEN <<<<"msg", "test">>>> ELSE <<>>)
          IN  /\ ok \/ tasks = <<>>
              /\ calls' = Append(calls, Call("RunTask", input, ok, tasks))
              /\ IF ok THEN RunTaskOnOk(lines, tasks) ELSE RunTaskOnErr(lines)
    /\ UNCHANGED <<flags, described, names>>

\* RunTask from svc.DescribeTaskDefinition to the read of the stream
\* prefix.  The error of the call is discarded; on an error the output has
\* no TaskDefinition and reading through it panics.
RunTaskDescribe ==
    /\ pc = "describe"
    /\ \E ok \in BOOLEAN, cds \in ContainerDefinitionLists :
          /\ ok \/ cds = <<>>
          /\ calls' = Append(calls, Call("DescribeTaskDefinition",
                                         [taskDefinition |-> taskDefinition], ok, cds))
          /\ IF ~ok \/ cds = <<>> \/ KeyPrefix \notin DOMAIN cds[1]
             THEN /\ Panic(<<>>)
                  /\ UNCHANGED described
             ELSE /\ taskDefinitionOutput' = cds
                  /\ logPrefix' = cds[1][KeyPrefix]
                  /\ pc' = "wait"
                  /\ UNCHANGED <<exitStatus, out>>
    /\ UNCHANGED <<flags, launched, names>>

\* if err != nil { ...; os.Exit(1) } after svc.WaitUntilTasksStopped
WaitOnErrMut(lines) ==
    /\ pc' = "getlogs"
    /\ UNCHANGED <<exitStatus, out, names>>
WaitOnErr(lines) ==
    /\ Fatal(lines, "WaitUntilTasksStopped")
    /\ UNCHANGED names

\* RunTask from svc.WaitUntilTasksStopped to its return
RunTaskWait ==
    /\ pc = "wait"
    /\ \E ok \in BOOLEAN :
          /\ calls' = Append(calls, Call("WaitUntilTasksStopped",
                                         [cluster |-> ecsCluster, tasks |-> <<taskArn>>],
                                         ok, <<>>))
          /\ IF ~ok
             THEN WaitOnErr(<<>>)
             ELSE IF KeyGroup \notin DOMAIN taskDefinitionOutput[1]
             THEN /\ Panic(<<>>)
                  /\ UNCHANGED names
             ELSE /\ logStreamName' = BuildLogStreamName(logPrefix, containerName, taskArnID)
                  /\ logGroupName' = taskDefinitionOutput[1][KeyGroup]
                  /\ pc' = "getlogs"
                  /\ UNCHANGED <<exitStatus, out>>
    /\ UNCHANGED <<flags, launched, described>>

\* ---------------------------------------------------------------- GetLogs
GetLogEventsInputMut(stream, group) ==
    [limit |-> LogLimit + 1, logGroupName |-> group, logStreamName |-> stream,
     startFromHead |-> FALSE]
GetLogEventsInput(stream, group) ==
    [limit |-> LogLimit, logGroupName |-> group, logStreamName |-> stream,
     startFromHead |-> TRUE]

\* The log service's answer to one request on a stream: at most limit
\* events, the earliest ones when startFromHead is set, else the latest.
ServiceGetLogEvents(stream, input) ==
    LET k == IF Len(stream) < input.limit THEN Len(stream) ELSE input.limit
    IN  IF input.startFromHead
        THEN SubSeq(stream, 1, k)
        ELSE SubSeq(stream, Len(stream) - k + 1, Len(stream))

\* for _, event := range resp.Events { fmt.Println("  ", *event.Message) }
PrintEvents(events) == [i \in 1..Len(events) |-> <<"log", events[i]>>]

GetLogs ==
    /\ pc = "getlogs"
    /\ \E ok \in BOOLEAN, n \in StreamLengths :
          LET input == GetLogEventsInput(logStreamName, logGroupName)
              events == IF ok THEN ServiceGetLogEvents(StreamEvents(n), input) ELSE <<>>
          IN  /\ ok \/ n = 0
              /\ calls' = Append(calls, Call("GetLogEvents", input, ok, events))
              /\ IF ok
                 THEN /\ out' = out \o <<<<"msg", "Logs:">>>> \o PrintEvents(events)
                      /\ pc' = "getexit"
                      /\ UNCHANGED exitStatus
                 ELSE Fatal(<<>>, "GetLogEvents")
    /\ UNCHANGED <<flags, launched, described, names>>

\* ---------------------------------------------------------------- GetExit
\* os.Exit(int(exitCode))
ProcessExitStatusMut(exitCode) == IF exitCode = 0 THEN 0 ELSE FatalExitStatus
ProcessExitStatus(exitCode) == exitCode

DescribeTasksResponses ==
    {<<>>} \cup {<<[containers |-> cs]>> : cs \in ExitContainerLists}

\* GetExit and the end of Run: the exit code of Tasks[0].Containers[0]
\* becomes the exit status (the argument of os.Exit).  A stopped task has
\* a StoppedReason, so reading it is not modelled as a source of panics.
GetExit ==
    /\ pc = "getexit"
    /\ \E ok \in BOOLEAN, tasks \in DescribeTasksResponses :
          /\ ok \/ tasks = <<>>
          /\ calls' = Append(calls, Call("DescribeTasks",
                                         [cluster |-> ecsCluster, tasks |-> <<taskArnID>>],
                                         ok, tasks))
          /\ IF ~ok
             THEN Fatal(<<>>, "DescribeTasks")
             ELSE IF \/ tasks = <<>>
                     \/ tasks[1].containers = <<>>
                     \/ ~tasks[1].containers[1].has
             THEN Panic(<<>>)
             ELSE Exit(ProcessExitStatus(tasks[1].containers[1].code),
                       <<<<"msg", "Exit reason:">>>>)
    /\ UNCHANGED <<flags, launched, described, names>>

Next ==
    \/ Run
    \/ ParseTaskDefinition
    \/ RunTaskLaunch
    \/ RunTaskDescribe
    \/ RunTaskWait
    \/ GetLogs
    \/ GetExit

Spec == Init /\ [][Next]_vars

\* ================================================================ claims
\* ------------------------------------------------ reading the histories
CallsOf(op) == {i \in DOMAIN calls : calls[i].op = op}
Issued(op) == CallsOf(op) # {}
Succeeded(op) == \E i \in CallsOf(op) : calls[i].ok
FailedCalls == {i \in DOMAIN calls : ~calls[i].ok}
\* the messages printed by the log loop, in the order printed
IsLogLine(l) == l[1] = "log"
PrintedMessages ==
    LET ls == SelectSeq(out, IsLogLine) IN [i \in 1..Len(ls) |-> ls[i][2]]
Printed(l) == \E i \in DOMAIN out : out[i] = l

\* The part of a string after its last "/" (the whole string when it has
\* none), by position rather than by splitting.
AfterLastSlash(s) ==
    LET slashes == {i \in 1..Len(s) : s[i] = "/"}
    IN  IF slashes = {} THEN s
        ELSE LET last == CHOOSE i \in slashes : \A j \in slashes : j <= i
             IN  SubSeq(s, last + 1, Len(s))

\* The identifiers a comma-separated flag lists, by the positions of its
\* commas; a flag that is not given lists none.
Identifiers(flag) ==
    LET commas == {i \in 1..Len(flag) : flag[i] = ","}
        n == Cardinality(commas)
        At(k) == IF k = 0 THEN 0
                 ELSE IF k = n + 1 THEN Len(flag) + 1
                 ELSE CHOOSE i \in commas : Cardinality({j \in commas : j <= i}) = k
    IN  IF flag = <<>> THEN <<>>
        ELSE [k \in 1..(n + 1) |-> SubSeq(flag, At(k - 1) + 1, At(k) - 1)]

\* C1: when run-task, the task-definition describe, the wait, the log
\* fetch and the final describe-tasks all succeed and the describe reports
\* an exit code for the first container, the process has exited with that
\* code as its status, and the describe asked for the task of this run:
\* the identifier taken from the run-task answer, in this run's cluster.
C1_ExitCodePropagated ==
    \A d \in CallsOf("DescribeTasks") :
        ( /\ calls[d].ok
          /\ Succeeded("RunTask") /\ Succeeded("DescribeTaskDefinition")
          /\ Succeeded("WaitUntilTasksStopped") /\ Succeeded("GetLogEvents")
          /\ calls[d].resp # <<>>
          /\ calls[d].resp[1].containers # <<>>
          /\ calls[d].resp[1].containers[1].has )
        => /\ pc = "exited"
           /\ exitStatus = calls[d].resp[1].containers[1].code
           /\ \E r \in CallsOf("RunTask") :
                 /\ r < d
                 /\ calls[d].req.tasks = <<AfterLastSlash(calls[r].resp[1].taskArn)>>
                 /\ calls[d].req.cluster = calls[r].req.cluster

\* the first container exited 137, a second one 0, and the process exited 137
C1_Witness ==
    /\ pc = "exited"
    /\ exitStatus = 137
    /\ \E d \in CallsOf("DescribeTasks") :
          /\ calls[d].ok
          /\ calls[d].resp # <<>>
          /\ calls[d].resp[1].containers = <<ExitCodeOf(137), ExitCodeOf(0)>>

\* C2: when the run-task request fails, the process has exited with
\* status 1 and has issued no task-definition describe, no wait, no log
\* retrieval and no describe-tasks.
C2_RunTaskErrorFatal ==
    \A r \in CallsOf("RunTask") :
        ~calls[r].ok =>
            /\ pc = "exited"
            /\ exitStatus = 1
            /\ ~Issued("GetLogEvents")
            /\ ~Issued("DescribeTaskDefinition")
            /\ ~Issued("WaitUntilTasksStopped")
            /\ ~Issued("DescribeTasks")
            /\ r = Len(calls)

\* run-task failed after a successful registration
C2_Witness ==
    /\ \E r \in CallsOf("RunTask") : ~calls[r].ok
    /\ Succeeded("RegisterTaskDefinition")

\* C3: a log retrieval or a describe-tasks is issued only after a wait
\* for the launched task returned successfully, a describe-tasks only
\* after the log retrieval; and when the wait fails neither is issued and
\* the process has exited with status 1.
C3_AfterStopped ==
    /\ \A i \in CallsOf("GetLogEvents") \cup CallsOf("DescribeTasks") :
          \E w \in CallsOf("WaitUntilTasksStopped"), r \in CallsOf("RunTask") :
              /\ r < w /\ w < i
              /\ calls[w].ok
              /\ calls[r].ok
              /\ calls[w].req.tasks = <<calls[r].resp[1].taskArn>>
    /\ \A d \in CallsOf("DescribeTasks") :
          \E l \in CallsOf("GetLogEvents") : l < d
    /\ \A w \in CallsOf("WaitUntilTasksStopped") :
          ~calls[w].ok =>
              /\ ~Issued("GetLogEvents")
              /\ ~Issued("DescribeTasks")
              /\ pc = "exited"
              /\ exitStatus = 1

\* the exit code was asked for, after the wait and the log retrieval
C3_Witness ==
    /\ Issued("DescribeTasks")
    /\ Succeeded("WaitUntilTasksStopped")
    /\ Succeeded("GetLogEvents")

\* C4: a failed remote call is the last call of the run, its error is
\* printed and the process has exited with status 1.
C4_EveryFailureFatal ==
    \A i \in FailedCalls :
        /\ i = Len(calls)
        /\ pc = "exited"
        /\ exitStatus = 1
        /\ Printed(<<"err", calls[i].op>>)

\* C5: in file mode a registration is requested only for a document that
\* was read and parsed (a read or parse failure ends the process before
\* it), and a failed registration ends the process with a non-zero status
\* before any run-task request.
C5_FileFailuresFatal ==
    \A g \in CallsOf("RegisterTaskDefinition") :
        /\ calls[g].req.file = "ok"
        /\ calls[g].req.content = "document"
        /\ ~calls[g].ok =>
              /\ pc = "exited"
              /\ exitStatus # 0
              /\ ~Issued("RunTask")

C7_LogStreamName ==
    \A l \in CallsOf("GetLogEvents") :
        \E r \in CallsOf("RunTask"), t \in CallsOf("DescribeTaskDefinition") :
            LET P == calls[t].resp[1][KeyPrefix]
                C == calls[r].resp[1].containers[1]
                T == AfterLastSlash(calls[r].resp[1].taskArn)
            IN  calls[l].req.logStreamName = P \o <<"/">> \o C \o <<"/">> \o T

\* a prefix with a "/" in it, two containers, an ARN with a "/" in it
C7_Witness ==
    /\ Issued("GetLogEvents")
    /\ logPrefix = <<"p", "/", "q">>
    /\ taskArn = <<"/", "t">>
    /\ logStreamName = <<"p", "/", "q", "/", "d", "/", "t">>

\* C8: the subnets and security groups of the run request are the
\* identifiers listed in the two flags, in order; a flag that is not
\* given lists none; with neither flag given the request has no network
\* configuration.
C8_NetworkListsExact ==
    \A r \in CallsOf("RunTask") :
        LET nc == calls[r].req.networkConfiguration
        IN  /\ (subnets = <<>> /\ securityGroups = <<>>) => ~nc.present
            /\ nc.subnets = Identifiers(subnets)
            /\ nc.securityGroups = Identifiers(securityGroups)

\* C9: with the file toggle set, a run-task request comes after a
\* successful registration and it, and the task-definition describe, name
\* the identifier the registration returned; with the toggle not set, no
\* registration is requested and both name the identifier given on the
\* command line.
C9_RegisteredIdentifierUsed ==
    LET users == CallsOf("RunTask") \cup CallsOf("DescribeTaskDefinition")
    IN  IF taskDefinitionFile
        THEN \A u \in users :
                \E g \in CallsOf("RegisterTaskDefinition") :
                    /\ g < u
                    /\ calls[g].ok
                    /\ calls[u].req.taskDefinition = calls[g].resp
        ELSE /\ ~Issued("RegisterTaskDefinition")
             /\ \A u \in users : calls[u].req.taskDefinition = argTaskDefinition

\* file mode, the task was run and its definition described
C9_Witness ==
    /\ taskDefinitionFile
    /\ Succeeded("RegisterTaskDefinition")
    /\ Issued("RunTask")
    /\ Issued("DescribeTaskDefinition")

\* C10: at most one run-task request is ever submitted, whatever failed
\* before or after it, and it asks for one task; with an empty cluster or
\* task-definition argument no remote call is made and the process prints
\* the usage and exits with status 1.
C10_SingleRunTask ==
    /\ Cardinality(CallsOf("RunTask")) <= 1
    /\ \A r \in CallsOf("RunTask") : calls[r].req.count = 1
    /\ (ecsCluster = "" \/ argTaskDefinition = "") =>
          /\ calls = <<>>
          /\ pc \in {"start", "exited"}
          /\ pc = "exited" => exitStatus = 1 /\ out = <<<<"msg", "usage">>>>

\* the one request was submitted and a later call failed
C10_Witness ==
    /\ Cardinality(CallsOf("RunTask")) = 1
    /\ pc = "exited"
    /\ \E i \in FailedCalls : calls[i].op = "GetLogEvents"
=============================================================================
